---- MODULE Spec2Model ----
(***************************************************************************)
(* A model of the Odamex network message components                        *)
(* (net_messagecomponent.h, kept here as src/unnamed/part_000) and of the  *)
(* client's default config file handling (client/src/m_misc.cpp).          *)
(*                                                                         *)
(* Message components are objects on a heap: composites (arrays, groups)   *)
(* hold MessageComponent* pointers, modelled as object ids.  A BitStream   *)
(* is a sequence of bits, written at its end and read from its front.      *)
(* A 32-bit machine word is kept as its two 16-bit halves, so that the     *)
(* conversions between the integral types are modelled by what they do to  *)
(* the bits.                                                               *)
(***************************************************************************)
EXTENDS Integers, Sequences, FiniteSets, TLC

VARIABLES
    \* ---- client/src/m_misc.cpp
    DefaultsLoaded,   \* bool DefaultsLoaded
    configver,        \* the value of the cvar configver
    cvar_defflags,    \* extern int cvar_defflags
    loadPc,           \* where M_LoadDefaults stands
    cfgFiles,         \* the file system: path -> contents of the config file
    argConfig,        \* the value of the -config command line argument
    lastSave,         \* the last call of M_SaveDefaults and what it did
    nCalls,           \* calls made so far (bounded)
    \* ---- message components
    heap,             \* object id -> component, or Free
    stream,           \* the BitStream
    ret,              \* what the last call on a component returned
    hist              \* what the caller remembers of the calls it made

cfgVars == <<DefaultsLoaded, configver, cvar_defflags, loadPc, cfgFiles,
             argConfig, lastSave, nCalls>>
netVars == <<heap, stream, ret, hist>>
vars == <<DefaultsLoaded, configver, cvar_defflags, loadPc, cfgFiles,
          argConfig, lastSave, nCalls, heap, stream, ret, hist>>

(***************************************************************************)
(* Part I.  client/src/m_misc.cpp                                          *)
(***************************************************************************)

\* Bound: the number of calls of M_LoadDefaults / M_SaveDefaults / console
\* commands the environment makes.
MaxCalls == 5

CONFIGVERSIONSTR == "cur"
CVAR_ARCHIVE == 1
Absent == "absent"
ConfigPaths == {"odamex.cfg", "custom.cfg"}
NoArg == "noarg"

\* The record of a call of M_SaveDefaults: which call it was and how it
\* ended.
Saved(call, outcome) == [call |-> call, outcome |-> outcome]

\* std::string GetConfigPath(): the -config argument when given, else the
\* user file odamex.cfg.
GetConfigPath ==
    IF argConfig # NoArg THEN argConfig ELSE "odamex.cfg"

\* What `exec "<path>"` does to configver: a config file that exists sets
\* every archived cvar it names, configver among them.
ExecConfig(path) ==
    IF cfgFiles[path] = Absent THEN configver ELSE cfgFiles[path]

\* No message component is in use while the config file is handled.
NetIdle ==
    /\ heap = <<>>
    /\ stream = <<>>
    /\ ret = <<>>
    /\ hist = <<>>

CfgInit ==
    /\ NetIdle
    /\ DefaultsLoaded = FALSE
    /\ configver = CONFIGVERSIONSTR
    /\ cvar_defflags = 0
    /\ loadPc = "idle"
    /\ cfgFiles \in [ConfigPaths -> {Absent, "old"}]
    /\ argConfig \in {NoArg, "custom.cfg"}
    /\ lastSave = Saved(0, "none")
    /\ nCalls = 0

\* M_SaveDefaults without its guard.
M_SaveDefaults_NoGuard ==
    /\ nCalls < MaxCalls
    /\ nCalls' = nCalls + 1
    /\ configver' = CONFIGVERSIONSTR
    /\ \E opened \in BOOLEAN :
          IF opened
          THEN /\ cfgFiles' = [cfgFiles EXCEPT ![GetConfigPath] = CONFIGVERSIONSTR]
               /\ lastSave' = Saved(nCalls', "written")
          ELSE /\ cfgFiles' = cfgFiles
               /\ lastSave' = Saved(nCalls', "openfailed")
    /\ UNCHANGED <<DefaultsLoaded, cvar_defflags, loadPc, argConfig>>
    /\ UNCHANGED netVars

\* void M_SaveDefaults(void).  It runs to its end without calling back into
\* the console, so it is one step.  fopen may fail.
M_SaveDefaults ==
    /\ nCalls < MaxCalls
    /\ nCalls' = nCalls + 1
    /\ IF ~DefaultsLoaded
       THEN /\ lastSave' = Saved(nCalls', "skipped")
            /\ UNCHANGED <<configver, cfgFiles>>
       ELSE /\ configver' = CONFIGVERSIONSTR
            /\ \E opened \in BOOLEAN :
                  IF opened
                  THEN /\ cfgFiles' = [cfgFiles EXCEPT
                                          ![GetConfigPath] = CONFIGVERSIONSTR]
                       /\ lastSave' = Saved(nCalls', "written")
                  ELSE /\ cfgFiles' = cfgFiles
                       /\ lastSave' = Saved(nCalls', "openfailed")
    /\ UNCHANGED <<DefaultsLoaded, cvar_defflags, loadPc, argConfig>>
    /\ UNCHANGED netVars

\* M_LoadDefaults, up to its first AddCommandString (the default bindings).
\* AddCommandString runs console commands, which may end the program and so
\* call M_SaveDefaults: the steps of M_LoadDefaults are separate actions.
M_LoadDefaults_Bindings ==
    /\ loadPc = "idle"
    /\ nCalls < MaxCalls
    /\ nCalls' = nCalls + 1
    /\ loadPc' = "bindings"
    /\ UNCHANGED <<DefaultsLoaded, configver, cvar_defflags, cfgFiles,
                   argConfig, lastSave>>
    /\ UNCHANGED netVars

\* The first AddCommandString returns; cvar_defflags = CVAR_ARCHIVE; and
\* AddCommandString("exec \"<path>\"") is entered: the console starts on the
\* commands of the config file.
M_LoadDefaults_Exec ==
    /\ loadPc = "bindings"
    /\ loadPc' = "exec"
    /\ cvar_defflags' = CVAR_ARCHIVE
    /\ UNCHANGED <<DefaultsLoaded, configver, cfgFiles, argConfig, lastSave,
                   nCalls>>
    /\ UNCHANGED netVars

\* Inside the exec: the commands of the config file run, the one that sets
\* configver among them.
M_LoadDefaults_ExecFile ==
    /\ loadPc = "exec"
    /\ loadPc' = "execd"
    /\ configver' = ExecConfig(GetConfigPath)
    /\ UNCHANGED <<DefaultsLoaded, cvar_defflags, cfgFiles, argConfig,
                   lastSave, nCalls>>
    /\ UNCHANGED netVars

\* The exec returns; cvar_defflags = 0; AddCommandString("alias ? help").
M_LoadDefaults_Alias ==
    /\ loadPc = "execd"
    /\ loadPc' = "alias"
    /\ cvar_defflags' = 0
    /\ UNCHANGED <<DefaultsLoaded, configver, cfgFiles, argConfig, lastSave,
                   nCalls>>
    /\ UNCHANGED netVars

\* DefaultsLoaded = true; and M_LoadDefaults returns.
M_LoadDefaults_Done ==
    /\ loadPc = "alias"
    /\ loadPc' = "idle"
    /\ DefaultsLoaded' = TRUE
    /\ UNCHANGED <<configver, cvar_defflags, cfgFiles, argConfig, lastSave,
                   nCalls>>
    /\ UNCHANGED netVars

\* The user changes configver at the console.
UserSetsConfigver ==
    /\ nCalls < MaxCalls
    /\ nCalls' = nCalls + 1
    /\ \E v \in {"cur", "old", "usr"} : configver' = v /\ v # configver
    /\ UNCHANGED <<DefaultsLoaded, cvar_defflags, loadPc, cfgFiles, argConfig,
                   lastSave>>
    /\ UNCHANGED netVars

CfgNext ==
    \/ M_SaveDefaults
    \/ M_LoadDefaults_Bindings
    \/ M_LoadDefaults_Exec
    \/ M_LoadDefaults_ExecFile
    \/ M_LoadDefaults_Alias
    \/ M_LoadDefaults_Done
    \/ UserSetsConfigver

(***************************************************************************)
(* Part II.  Bits, machine words and the BitStream                         *)
(***************************************************************************)

MAXINT == 2147483647
MININT == -2147483647 - 1

\* The width of a machine word (uint32_t) and of the uint16_t every size(),
\* read() and write() returns.
WordBits == 32
U16Mod == 65536
U16(n) == n % U16Mod

\* A machine word (uint32_t) is kept as its two 16-bit halves, so that no
\* intermediate value leaves the 32-bit signed integers of TLC.
\* The conversion of an int32_t (or of any narrower integral value) to
\* uint32_t: its two's complement bit pattern.
ToWord(v) == [hi |-> (v \div U16Mod) % U16Mod, lo |-> v % U16Mod]

ZeroWord == [hi |-> 0, lo |-> 0]

\* Bit k (0 is the least significant) of a word.
WordBit(w, k) ==
    IF k < 16 THEN (w.lo \div (2^k)) % 2 ELSE (w.hi \div (2^(k - 16))) % 2

\* The low n bits of a word, most significant first.
LowBits(w, n) == [i \in 1..n |-> WordBit(w, n - i)]

\* The unsigned value of a sequence of at most 16 bits.
RECURSIVE Val(_)
Val(b) ==
    IF b = <<>> THEN 0
    ELSE 2 * Val(SubSeq(b, 1, Len(b) - 1)) + b[Len(b)]

\* The word that holds the (at most 32) bits b, zero-extended.
ZeroExt(b) ==
    IF Len(b) <= 16 THEN [hi |-> 0, lo |-> Val(b)]
    ELSE [hi |-> Val(SubSeq(b, 1, Len(b) - 16)),
          lo |-> Val(SubSeq(b, Len(b) - 15, Len(b)))]

\* The conversion of a uint32_t to int32_t.
WordToS32(w) ==
    (IF w.hi >= 32768 THEN w.hi - U16Mod ELSE w.hi) * U16Mod + w.lo

\* a - b and a + b in uint32_t arithmetic (modulo 2^32).
SubWord(a, b) ==
    [hi |-> (a.hi - b.hi - (IF a.lo < b.lo THEN 1 ELSE 0)) % U16Mod,
     lo |-> (a.lo - b.lo) % U16Mod]

AddWord(a, b) ==
    [hi |-> (a.hi + b.hi + (IF a.lo + b.lo >= U16Mod THEN 1 ELSE 0)) % U16Mod,
     lo |-> (a.lo + b.lo) % U16Mod]

\* a <= b as unsigned words.
LeqWord(a, b) == a.hi < b.hi \/ (a.hi = b.hi /\ a.lo <= b.lo)

\* The number of significant bits of a 16-bit half and of a word: 0 for 0.
BitLen(x) ==
    CHOOSE k \in 0..16 : x < 2^k /\ (k = 0 \/ x >= 2^(k - 1))

SigBits(w) == IF w.hi > 0 THEN 16 + BitLen(w.hi) ELSE BitLen(w.lo)

\* ---- BitStream (net_bitstream.h): bits are appended at the end and
\* consumed at the front.
EmptyStream == <<>>
CanRead(s, n) == Len(s) >= n

writeBits(s, w, n) == s \o LowBits(w, n)
readBits(s, n) ==
    [val |-> ZeroExt(SubSeq(s, 1, n)), s |-> SubSeq(s, n + 1, Len(s))]

\* A bit of the stream is 0 or 1, or, where memory that was never assigned
\* was written, an unknown bit: bit i - 1 (from the most significant) of the
\* k-th unassigned word is the number 2 + 32 * k + (i - 1).  Nothing is known
\* of an unknown bit but that it is the bit it is.
\*
\* An int32_t (fixed_t) that may be unassigned is a record [init, v]:
\* init = TRUE with v = <<n>>, n the value, or init = FALSE with v the 32
\* bits the memory holds.
Fixed(n) == [init |-> TRUE, v |-> <<n>>]

writeS32(s, f) ==
    IF f.init THEN writeBits(s, ToWord(f.v[1]), WordBits) ELSE s \o f.v
readS32(s) ==
    [val |-> IF \A i \in 1..WordBits : s[i] \in {0, 1}
             THEN Fixed(WordToS32(readBits(s, WordBits).val))
             ELSE [init |-> FALSE, v |-> SubSeq(s, 1, WordBits)],
     s |-> readBits(s, WordBits).s]

\* A string is a sequence of character codes 0..255.  writeString emits the
\* characters, 8 bits each, and a terminating zero byte.
writeString(s, str) ==
    s \o [i \in 1..(8 * (Len(str) + 1)) |->
            IF i > 8 * Len(str) THEN 0
            ELSE (str[((i - 1) \div 8) + 1] \div (2^(7 - ((i - 1) % 8)))) % 2]

ByteAt(s, k) ==
    128 * s[8 * k - 7] + 64 * s[8 * k - 6] + 32 * s[8 * k - 5]
      + 16 * s[8 * k - 4] + 8 * s[8 * k - 3] + 4 * s[8 * k - 2]
      + 2 * s[8 * k - 1] + s[8 * k]
HasString(s) == \E k \in 1..(Len(s) \div 8) : ByteAt(s, k) = 0
FirstTerminator(s) ==
    LET T == {k \in 1..(Len(s) \div 8) : ByteAt(s, k) = 0}
    IN  CHOOSE k \in T : \A j \in T : k <= j

\* readString consumes the characters up to and including the first zero
\* byte.
readString(s) ==
    LET t == FirstTerminator(s) IN
    [val |-> SubSeq([k \in 1..(Len(s) \div 8) |-> ByteAt(s, k)], 1, t - 1),
     s |-> SubSeq(s, 8 * t + 1, Len(s))]

(***************************************************************************)
(* Part III.  Leaf message components                                      *)
(* A component is a record; `kind` names its class.  read and write return *)
(* the component (size() fills a mutable cache), the stream, the uint16_t  *)
(* they return and the error they signal ("ok" when none).                 *)
(***************************************************************************)

Ok == "ok"

\* ---- MessageComponent: the field name
getFieldName(c) == c.mFieldName
setFieldName(c, name) == [c EXCEPT !.mFieldName = name]

\* ---- IntegralMessageComponent<T, SIZE>
\* The integral types T of the seven typedefs, named by the suffix of the
\* typedef.
IntTypes == {"bool", "u8", "s8", "u16", "s16", "u32", "s32"}
TypeBits(T) ==
    CASE T \in {"bool", "u8", "s8"} -> 8
      [] T \in {"u16", "s16"} -> 16
      [] T \in {"u32", "s32"} -> 32
IsSigned(T) == T \in {"s8", "s16", "s32"}
\* SIZE defaults to 8 * sizeof(T); BoolMessageComponent is <bool, 1>.
DefaultSIZE(T) == IF T = "bool" THEN 1 ELSE TypeBits(T)

\* A value of a T other than uint32_t is an integer.  A uint32_t value is
\* kept as a word, since its upper half (2^31 .. 2^32 - 1) lies outside the
\* integers of TLC: [hi |-> 65535, lo |-> 65535] is 4294967295.
Zero(T) == IF T = "u32" THEN ZeroWord ELSE 0

\* The conversion of a T to uint32_t (the argument of writeBits in write()).
WordOf(T, v) == IF T = "u32" THEN v ELSE ToWord(v)

\* The conversion of a uint32_t to T (the argument of set(T) in read()).
CastTo(T, w) ==
    CASE T = "bool" -> IF w = ZeroWord THEN 0 ELSE 1
      [] T = "u8"   -> w.lo % 256
      [] T = "s8"   -> IF (w.lo % 256) >= 128 THEN (w.lo % 256) - 256
                       ELSE w.lo % 256
      [] T = "u16"  -> w.lo
      [] T = "s16"  -> IF w.lo >= 32768 THEN w.lo - U16Mod ELSE w.lo
      [] T = "u32"  -> w
      [] T = "s32"  -> WordToS32(w)

\* IntegralMessageComponent<T, SIZE>(value)
NewIntegral(T, SIZE, value) ==
    [kind |-> "integral", mFieldName |-> "", T |-> T, SIZE |-> SIZE,
     mValue |-> value]

IntegralSize(c) == c.SIZE
IntegralClear(c) == [c EXCEPT !.mValue = Zero(c.T)]
IntegralSet(c, value) == [c EXCEPT !.mValue = value]

\* A read that keeps the 16 low bits of the word as they are, unsigned, also
\* for a signed T.
IntegralRead_NoSign(c, s) ==
    LET r == readBits(s, c.SIZE)
    IN  [c |-> IntegralSet(c, IF IsSigned(c.T) THEN r.val.lo
                              ELSE CastTo(c.T, r.val)),
         s |-> r.s, n |-> c.SIZE, err |-> Ok]

\* { set(stream.readBits(SIZE)); return SIZE; }
IntegralRead(c, s) ==
    LET r == readBits(s, c.SIZE)
    IN  [c |-> IntegralSet(c, CastTo(c.T, r.val)), s |-> r.s, n |-> c.SIZE,
         err |-> Ok]

\* A write of the whole of T where SIZE bits are meant.
IntegralWrite_TypeWidth(c, s) ==
    [c |-> c, s |-> writeBits(s, WordOf(c.T, c.mValue), TypeBits(c.T)),
     n |-> c.SIZE, err |-> Ok]

\* { stream.writeBits(mValue, SIZE); return SIZE; }
IntegralWrite(c, s) ==
    [c |-> c, s |-> writeBits(s, WordOf(c.T, c.mValue), c.SIZE), n |-> c.SIZE,
     err |-> Ok]

\* ---- StringMessageComponent
NewString(value) ==
    [kind |-> "string", mFieldName |-> "", mValue |-> value]

\* uint16_t size() const { return 8 * (mValue.length() + 1); }
StringSize(c) == U16(8 * (Len(c.mValue) + 1))
StringClear(c) == [c EXCEPT !.mValue = <<>>]
StringSet(c, value) == [c EXCEPT !.mValue = value]

\* { set(stream.readString()); return size(); }
StringRead(c, s) ==
    LET r  == readString(s)
        c2 == StringSet(c, r.val)
    IN  [c |-> c2, s |-> r.s, n |-> StringSize(c2), err |-> Ok]

\* { stream.writeString(mValue); return size(); }
StringWrite(c, s) ==
    [c |-> c, s |-> writeString(s, c.mValue), n |-> StringSize(c), err |-> Ok]

\* ---- FloatMessageComponent: mValue is the word of the float's IEEE-754
\* bits; 0.0f is the zero word.  readFloat and writeFloat move the 32 bits.
NewFloat(value) ==
    [kind |-> "float", mFieldName |-> "", mValue |-> value]

\* static const uint16_t SIZE = 32;
FloatSize(c) == 32
FloatClear(c) == [c EXCEPT !.mValue = ZeroWord]
FloatSet(c, value) == [c EXCEPT !.mValue = value]
\* { set(stream.readFloat()); return SIZE; }
FloatRead(c, s) ==
    [c |-> FloatSet(c, readBits(s, WordBits).val),
     s |-> readBits(s, WordBits).s,
     n |-> FloatSize(c), err |-> Ok]
\* { stream.writeFloat(mValue); return SIZE; }
FloatWrite(c, s) ==
    [c |-> c, s |-> writeBits(s, c.mValue, WordBits), n |-> FloatSize(c),
     err |-> Ok]

\* ---- Md5SumMessageComponent: mValue is the NUMBYTES bytes of the digest,
\* mCachedString its hexadecimal digits (character codes), two for a byte.
NUMBITS == 128
NUMBYTES == NUMBITS \div 8

\* The digit of a value 0..15 ('0'..'9', 'a'..'f') and the value of a
\* digit ('0'..'9', 'a'..'f', 'A'..'F'), -1 for any other character.
HexChar(d) == IF d < 10 THEN 48 + d ELSE 87 + d
HexValue(ch) ==
    CASE ch \in 48..57  -> ch - 48
      [] ch \in 97..102 -> ch - 87
      [] ch \in 65..70  -> ch - 55
      [] OTHER -> -1

WellFormedDigest(value) ==
    /\ Len(value) = 2 * NUMBYTES
    /\ \A i \in DOMAIN value : HexValue(value[i]) >= 0

\* cacheString(): mCachedString is the digest in lowercase hexadecimal.
cacheString(c) ==
    [c EXCEPT !.mCachedString =
        [i \in 1..(2 * NUMBYTES) |->
            HexChar(IF i % 2 = 1 THEN c.mValue[(i + 1) \div 2] \div 16
                    ELSE c.mValue[i \div 2] % 16)]]

\* setFromString(value): the bytes of a well-formed text; a text that is
\* not 2 * NUMBYTES hexadecimal digits is the error MalformedDigestText and
\* leaves the component as it was.
setFromString(c, value) ==
    IF WellFormedDigest(value)
    THEN cacheString([c EXCEPT !.mValue =
            [k \in 1..NUMBYTES |->
                16 * HexValue(value[2 * k - 1]) + HexValue(value[2 * k])]])
    ELSE c

NewMd5Sum ==
    cacheString([kind |-> "md5sum", mFieldName |-> "",
                 mValue |-> [k \in 1..NUMBYTES |-> 0],
                 mCachedString |-> <<>>])

\* uint16_t size() const { return NUMBITS; }
Md5SumSize(c) == NUMBITS
Md5SumClear(c) == cacheString([c EXCEPT !.mValue = [k \in 1..NUMBYTES |-> 0]])
Md5SumRead(c, s) ==
    [c |-> cacheString([c EXCEPT !.mValue =
                           [k \in 1..NUMBYTES |-> ByteAt(s, k)]]),
     s |-> SubSeq(s, NUMBITS + 1, Len(s)), n |-> Md5SumSize(c), err |-> Ok]
Md5SumWrite(c, s) ==
    [c |-> c,
     s |-> s \o [i \in 1..NUMBITS |->
                    (c.mValue[((i - 1) \div 8) + 1]
                        \div (2^(7 - ((i - 1) % 8)))) % 2],
     n |-> Md5SumSize(c), err |-> Ok]

\* ---- V2FixedMessageComponent, V3FixedMessageComponent
NewV2Fixed(x, y) ==
    [kind |-> "v2fixed", mFieldName |-> "", mValue |-> [x |-> x, y |-> y]]
NewV3Fixed(x, y, z) ==
    [kind |-> "v3fixed", mFieldName |-> "",
     mValue |-> [x |-> x, y |-> y, z |-> z]]

\* V2FixedMessageComponent() { } and V3FixedMessageComponent() { } leave
\* mValue uninitialised: each field holds whatever the memory held, which
\* may be any int32_t.  Indeterminate(k) is the k-th such word: 32 unknown
\* bits, the same at every look until the field is assigned.
Indeterminate(k) ==
    [init |-> FALSE, v |-> [i \in 1..WordBits |-> 2 + WordBits * k + (i - 1)]]

V2FixedSize(c) == 2 * 32
V2FixedClear(c) == [c EXCEPT !.mValue = [x |-> Fixed(0), y |-> Fixed(0)]]
V2FixedSet(c, value) == [c EXCEPT !.mValue = value]
V2FixedRead(c, s) ==
    [c |-> [c EXCEPT !.mValue = [x |-> readS32(s).val,
                                 y |-> readS32(readS32(s).s).val]],
     s |-> readS32(readS32(s).s).s, n |-> V2FixedSize(c), err |-> Ok]
V2FixedWrite(c, s) ==
    [c |-> c, s |-> writeS32(writeS32(s, c.mValue.x), c.mValue.y),
     n |-> V2FixedSize(c), err |-> Ok]

V3FixedSize(c) == 3 * 32
V3FixedClear(c) ==
    [c EXCEPT !.mValue = [x |-> Fixed(0), y |-> Fixed(0), z |-> Fixed(0)]]
V3FixedSet(c, value) == [c EXCEPT !.mValue = value]
V3FixedRead(c, s) ==
    [c |-> [c EXCEPT !.mValue =
               [x |-> readS32(s).val,
                y |-> readS32(readS32(s).s).val,
                z |-> readS32(readS32(readS32(s).s).s).val]],
     s |-> readS32(readS32(readS32(s).s).s).s, n |-> V3FixedSize(c),
     err |-> Ok]
V3FixedWrite(c, s) ==
    [c |-> c,
     s |-> writeS32(writeS32(writeS32(s, c.mValue.x), c.mValue.y), c.mValue.z),
     n |-> V3FixedSize(c), err |-> Ok]

\* ---- BitFieldMessageComponent: mBitField is a sequence of flags (0/1).
NewBitField(num_fields) ==
    [kind |-> "bitfield", mFieldName |-> "",
     mBitField |-> [i \in 1..num_fields |-> 0]]

BitFieldSize(c) == U16(Len(c.mBitField))
BitFieldClear(c) == [c EXCEPT !.mBitField = [i \in 1..Len(@) |-> 0]]
BitFieldSet(c, value) == [c EXCEPT !.mBitField = value]
\* read and write move the flags one bit each, in declaration order.
BitFieldRead(c, s) ==
    [c |-> [c EXCEPT !.mBitField = SubSeq(s, 1, Len(@))],
     s |-> SubSeq(s, Len(c.mBitField) + 1, Len(s)),
     n |-> BitFieldSize(c), err |-> Ok]
BitFieldWrite(c, s) ==
    [c |-> c, s |-> s \o c.mBitField, n |-> BitFieldSize(c), err |-> Ok]

\* ---- RangeMessageComponent
\* RangeMessageComponent(value, lowerbound = MININT, upperbound = MAXINT)
NewRange(value, lowerbound, upperbound) ==
    [kind |-> "range", mFieldName |-> "",
     mCachedSizeValid |-> FALSE, mCachedSize |-> 0,
     mValue |-> value, mLowerBound |-> lowerbound, mUpperBound |-> upperbound]

\* The largest encoded value, mUpperBound - mLowerBound, as a word.
RangeSpan(c) == SubWord(ToWord(c.mUpperBound), ToWord(c.mLowerBound))

\* size(): the bits that hold every value of mLowerBound..mUpperBound,
\* computed from the bounds on the first call and cached.
RangeSize(c) ==
    IF c.mCachedSizeValid
    THEN [c |-> c, n |-> c.mCachedSize]
    ELSE [c |-> [c EXCEPT !.mCachedSizeValid = TRUE,
                          !.mCachedSize = SigBits(RangeSpan(c))],
          n |-> SigBits(RangeSpan(c))]

\* clear() that zeroes the wrong member.
RangeClear_WrongMember(c) == [c EXCEPT !.mCachedSize = 0]

\* clear() that resets the value to the lower bound.
RangeClear_ToLowerBound(c) == [c EXCEPT !.mValue = c.mLowerBound]

\* inline void clear() { mValue = 0; }
RangeClear(c) == [c EXCEPT !.mValue = 0]

\* set() that clamps the value to the bounds.
RangeSet_Clamped(c, value) ==
    [c EXCEPT !.mValue = IF value < c.mLowerBound THEN c.mLowerBound
                         ELSE IF value > c.mUpperBound THEN c.mUpperBound
                         ELSE value]

\* inline void set(int32_t value) { mValue = value; }
RangeSet(c, value) == [c EXCEPT !.mValue = value]

\* write(): mValue - mLowerBound in size() bits; a value outside the bounds
\* is the error ValueOutOfRange and nothing is written.
RangeWrite(c, s) ==
    IF c.mValue < c.mLowerBound \/ c.mValue > c.mUpperBound
    THEN [c |-> RangeSize(c).c, s |-> s, n |-> 0, err |-> "ValueOutOfRange"]
    ELSE [c |-> RangeSize(c).c,
          s |-> writeBits(s, SubWord(ToWord(c.mValue), ToWord(c.mLowerBound)),
                          RangeSize(c).n),
          n |-> RangeSize(c).n, err |-> Ok]

\* read(): size() bits, plus mLowerBound; a decoded value above the upper
\* bound is the error ValueOutOfRange and the value is left as it was.
RangeRead(c, s) ==
    LET sz == RangeSize(c)
        d  == readBits(s, sz.n)
    IN  IF ~LeqWord(d.val, RangeSpan(c))
        THEN [c |-> sz.c, s |-> d.s, n |-> sz.n, err |-> "ValueOutOfRange"]
        ELSE [c |-> [sz.c EXCEPT !.mValue =
                        WordToS32(AddWord(ToWord(c.mLowerBound), d.val))],
              s |-> d.s, n |-> sz.n, err |-> Ok]

(***************************************************************************)
(* Part IV.  The heap and the composite components                         *)
(* MessageComponentArray and MessageComponentGroup hold pointers to the    *)
(* components they own.  Every call takes the heap and returns the heap    *)
(* it leaves.                                                              *)
(***************************************************************************)

\* Bound: the number of component objects that can be alive at once.
MaxObjs == 11
ObjIds == 1..MaxObjs
Free == [kind |-> "free"]
EmptyHeap == [i \in ObjIds |-> Free]

\* operator new: the first free cell.
Alloc(h) == CHOOSE i \in ObjIds : h[i] = Free /\ \A j \in 1..(i - 1) : h[j] # Free
FreeCells(h) == Cardinality({i \in ObjIds : h[i] = Free})

IsLeaf(c) == c.kind \in {"integral", "float", "string", "v2fixed", "v3fixed",
                         "bitfield", "md5sum", "range"}

\* MessageComponentArray(mincnt = 0, maxcnt = 65535)
NewArray(mincnt, maxcnt) ==
    [kind |-> "array", mFieldName |-> "",
     mCachedSizeValid |-> FALSE, mCachedSize |-> 0,
     mMinCount |-> mincnt, mMaxCount |-> maxcnt,
     mCountField |-> NewRange(0, mincnt, maxcnt),
     mFields |-> <<>>]

\* The element an array materializes for a new slot.  No member of the
\* class holds it and no function of the class takes it: the arrays of the
\* model are arrays of BoolMessageComponent.
ElementPrototype == NewIntegral("bool", 1, 0)

\* MessageComponentGroup()
NewGroup ==
    [kind |-> "group", mFieldName |-> "",
     mCachedSizeValid |-> FALSE, mCachedSize |-> 0,
     mNameTable |-> <<>>,
     mOptionalIndicator |-> NewBitField(0),
     mOptionalFields |-> <<>>, mRequiredFields |-> <<>>]

\* The children a composite owns, in the order it keeps them.
Children(c) ==
    CASE c.kind = "array" -> c.mFields
      [] c.kind = "group" -> c.mRequiredFields \o c.mOptionalFields
      [] OTHER -> <<>>

Elems(seq) == {seq[i] : i \in DOMAIN seq}

\* The objects of the tree under id, id included.
RECURSIVE Tree(_, _)
Tree(h, id) ==
    {id} \cup UNION {Tree(h, k) : k \in Elems(Children(h[id]))}

\* The optional fields whose presence bit is set, in declaration order.
RECURSIVE Present(_, _)
Present(fields, bits) ==
    IF fields = <<>> THEN <<>>
    ELSE (IF Head(bits) = 1 THEN <<Head(fields)>> ELSE <<>>)
         \o Present(Tail(fields), Tail(bits))

\* ---- size()
RECURSIVE SizeCall(_, _), SumSizes(_, _, _)

SumSizes(h, ids, acc) ==
    IF ids = <<>> THEN [h |-> h, n |-> acc]
    ELSE LET r == SizeCall(h, Head(ids))
         IN  SumSizes(r.h, Tail(ids), U16(acc + r.n))

\* MessageComponentArray::size(): the count field and every element, cached.
ArraySize(h, id) ==
    IF h[id].mCachedSizeValid
    THEN [h |-> h, n |-> h[id].mCachedSize]
    ELSE LET cnt == RangeSize(h[id].mCountField)
             sum == SumSizes(h, h[id].mFields, cnt.n)
         IN  [h |-> [sum.h EXCEPT ![id].mCountField = cnt.c,
                                  ![id].mCachedSizeValid = TRUE,
                                  ![id].mCachedSize = sum.n],
              n |-> sum.n]

\* MessageComponentGroup::size(): the presence bit-field, the required
\* fields and the present optional fields; computed when the cache is not
\* valid, and cached.
GroupSize(h, id) ==
    IF h[id].mCachedSizeValid
    THEN [h |-> h, n |-> h[id].mCachedSize]
    ELSE LET req == SumSizes(h, h[id].mRequiredFields,
                             BitFieldSize(h[id].mOptionalIndicator))
             opt == SumSizes(req.h,
                             Present(h[id].mOptionalFields,
                                     h[id].mOptionalIndicator.mBitField),
                             req.n)
         IN  [h |-> [opt.h EXCEPT ![id].mCachedSizeValid = TRUE,
                                  ![id].mCachedSize = opt.n],
              n |-> opt.n]

SizeCall(h, id) ==
    LET c == h[id] IN
    CASE c.kind = "integral" -> [h |-> h, n |-> IntegralSize(c)]
      [] c.kind = "float"    -> [h |-> h, n |-> FloatSize(c)]
      [] c.kind = "md5sum"   -> [h |-> h, n |-> Md5SumSize(c)]
      [] c.kind = "string"   -> [h |-> h, n |-> StringSize(c)]
      [] c.kind = "v2fixed"  -> [h |-> h, n |-> V2FixedSize(c)]
      [] c.kind = "v3fixed"  -> [h |-> h, n |-> V3FixedSize(c)]
      [] c.kind = "bitfield" -> [h |-> h, n |-> BitFieldSize(c)]
      [] c.kind = "range"    -> [h |-> [h EXCEPT ![id] = RangeSize(c).c],
                                 n |-> RangeSize(c).n]
      [] c.kind = "array"    -> ArraySize(h, id)
      [] c.kind = "group"    -> GroupSize(h, id)

\* ---- write()
RECURSIVE WriteCall(_, _, _), WriteAll(_, _, _, _)

WriteAll(h, ids, s, acc) ==
    IF ids = <<>> THEN [h |-> h, s |-> s, n |-> acc, err |-> Ok]
    ELSE LET r == WriteCall(h, Head(ids), s)
         IN  IF r.err # Ok THEN [h |-> r.h, s |-> r.s, n |-> acc, err |-> r.err]
             ELSE WriteAll(r.h, Tail(ids), r.s, U16(acc + r.n))

LeafWrite(c, s) ==
    CASE c.kind = "integral" -> IntegralWrite(c, s)
      [] c.kind = "float"    -> FloatWrite(c, s)
      [] c.kind = "md5sum"   -> Md5SumWrite(c, s)
      [] c.kind = "string"   -> StringWrite(c, s)
      [] c.kind = "v2fixed"  -> V2FixedWrite(c, s)
      [] c.kind = "v3fixed"  -> V3FixedWrite(c, s)
      [] c.kind = "bitfield" -> BitFieldWrite(c, s)
      [] c.kind = "range"    -> RangeWrite(c, s)

\* MessageComponentArray::write(): the element count through the count
\* field, then every element.  A count outside mMinCount..mMaxCount is the
\* error CountOutOfBounds and nothing is written.
ArrayWrite(h, id, s) ==
    LET c   == h[id]
        cnt == RangeWrite(RangeSet(c.mCountField, Len(c.mFields)), s)
    IN  IF cnt.err # Ok
        THEN [h |-> h, s |-> s, n |-> 0, err |-> "CountOutOfBounds"]
        ELSE WriteAll([h EXCEPT ![id].mCountField = cnt.c], c.mFields,
                      cnt.s, cnt.n)

\* MessageComponentGroup::write(): the presence bit-field, the required
\* fields, then the optional fields whose bit is set.
GroupWrite(h, id, s) ==
    LET c   == h[id]
        ind == BitFieldWrite(c.mOptionalIndicator, s)
        req == WriteAll(h, c.mRequiredFields, ind.s, ind.n)
    IN  IF req.err # Ok THEN req
        ELSE WriteAll(req.h,
                      Present(c.mOptionalFields, c.mOptionalIndicator.mBitField),
                      req.s, req.n)

WriteCall(h, id, s) ==
    LET c == h[id] IN
    CASE IsLeaf(c) ->
            LET r == LeafWrite(c, s)
            IN  [h |-> [h EXCEPT ![id] = r.c], s |-> r.s, n |-> r.n,
                 err |-> r.err]
      [] c.kind = "array" -> ArrayWrite(h, id, s)
      [] c.kind = "group" -> GroupWrite(h, id, s)

\* ---- clone()
RECURSIVE CloneCall(_, _), CloneAll(_, _, _)

CloneAll(h, ids, acc) ==
    IF ids = <<>> THEN [h |-> h, ids |-> acc]
    ELSE LET r == CloneCall(h, Head(ids))
         IN  CloneAll(r.h, Tail(ids), Append(acc, r.id))

\* A clone() that hands out the object itself.
LeafClone_Shared(h, id) == [h |-> h, id |-> id]

\* clone() const { return new X(*this); } with the implicit copy
\* constructor of a leaf: a new object with the same members.
LeafClone(h, id) ==
    [h |-> [h EXCEPT ![Alloc(h)] = h[id]], id |-> Alloc(h)]

IndexOf(seq, x) == CHOOSE i \in DOMAIN seq : seq[i] = x

\* MessageComponentArray(const MessageComponentArray&): every element is
\* cloned.
ArrayClone(h, id) ==
    LET n   == Alloc(h)
        els == CloneAll([h EXCEPT ![n] = h[id]], h[id].mFields, <<>>)
    IN  [h |-> [els.h EXCEPT ![n].mFields = els.ids], id |-> n]

\* MessageComponentGroup(const MessageComponentGroup&): every field is
\* cloned and the name table is rebuilt over the clones.
GroupClone(h, id) ==
    LET n   == Alloc(h)
        c   == h[id]
        req == CloneAll([h EXCEPT ![n] = c], c.mRequiredFields, <<>>)
        opt == CloneAll(req.h, c.mOptionalFields, <<>>)
        old == c.mRequiredFields \o c.mOptionalFields
        new == req.ids \o opt.ids
    IN  [h |-> [opt.h EXCEPT
                  ![n].mRequiredFields = req.ids,
                  ![n].mOptionalFields = opt.ids,
                  ![n].mNameTable =
                      [name \in DOMAIN c.mNameTable |->
                          new[IndexOf(old, c.mNameTable[name])]]],
         id |-> n]

CloneCall(h, id) ==
    CASE IsLeaf(h[id]) -> LeafClone(h, id)
      [] h[id].kind = "array" -> ArrayClone(h, id)
      [] h[id].kind = "group" -> GroupClone(h, id)

\* delete of every object under ids.
FreeAll(h, ids) ==
    LET dead == UNION {Tree(h, k) : k \in Elems(ids)}
    IN  [i \in ObjIds |-> IF i \in dead THEN Free ELSE h[i]]

\* MessageComponentArray::operator=: the elements of `to` are deleted and
\* replaced by clones of the elements of `from`; the bounds, the count
\* field and the cached size are those of `from`.
ArrayAssign(h, to, from) ==
    IF to = from THEN h
    ELSE LET els == CloneAll(FreeAll(h, h[to].mFields), h[from].mFields, <<>>)
         IN  [els.h EXCEPT ![to] = [h[from] EXCEPT
                                      !.mFields = els.ids,
                                      !.mFieldName = h[to].mFieldName]]

\* ---- clear()
RECURSIVE ClearCall(_, _), ClearAll(_, _)

ClearAll(h, ids) ==
    IF ids = <<>> THEN h ELSE ClearAll(ClearCall(h, Head(ids)), Tail(ids))

LeafClear(c) ==
    CASE c.kind = "integral" -> IntegralClear(c)
      [] c.kind = "float"    -> FloatClear(c)
      [] c.kind = "md5sum"   -> Md5SumClear(c)
      [] c.kind = "string"   -> StringClear(c)
      [] c.kind = "v2fixed"  -> V2FixedClear(c)
      [] c.kind = "v3fixed"  -> V3FixedClear(c)
      [] c.kind = "bitfield" -> BitFieldClear(c)
      [] c.kind = "range"    -> RangeClear(c)

\* MessageComponentArray::clear(): no elements.
ArrayClear(h, id) ==
    [FreeAll(h, h[id].mFields) EXCEPT
        ![id].mFields = <<>>,
        ![id].mCountField = RangeSet(@, 0),
        ![id].mCachedSizeValid = FALSE]

\* MessageComponentGroup::clear(): every field cleared, no optional field
\* present.
GroupClear(h, id) ==
    [ClearAll(h, h[id].mRequiredFields \o h[id].mOptionalFields) EXCEPT
        ![id].mOptionalIndicator = BitFieldClear(@),
        ![id].mCachedSizeValid = FALSE]

ClearCall(h, id) ==
    CASE IsLeaf(h[id]) -> [h EXCEPT ![id] = LeafClear(@)]
      [] h[id].kind = "array" -> ArrayClear(h, id)
      [] h[id].kind = "group" -> GroupClear(h, id)

\* n new elements, each a copy of the element prototype.
RECURSIVE Materialize(_, _, _)
Materialize(h, n, acc) ==
    IF n = 0 THEN [h |-> h, ids |-> acc]
    ELSE Materialize([h EXCEPT ![Alloc(h)] = ElementPrototype], n - 1,
                     Append(acc, Alloc(h)))

\* ---- read()
RECURSIVE ReadCall(_, _, _), ReadAll(_, _, _, _)

ReadAll(h, ids, s, acc) ==
    IF ids = <<>> THEN [h |-> h, s |-> s, n |-> acc, err |-> Ok]
    ELSE LET r == ReadCall(h, Head(ids), s)
         IN  IF r.err # Ok THEN [h |-> r.h, s |-> r.s, n |-> acc, err |-> r.err]
             ELSE ReadAll(r.h, Tail(ids), r.s, U16(acc + r.n))

\* Whether the stream holds what the leaf's read() consumes.
LeafCanRead(c, s) ==
    CASE c.kind = "integral" -> CanRead(s, c.SIZE)
      [] c.kind = "float"    -> CanRead(s, FloatSize(c))
      [] c.kind = "md5sum"   -> CanRead(s, Md5SumSize(c))
      [] c.kind = "string"   -> HasString(s)
      [] c.kind = "v2fixed"  -> CanRead(s, V2FixedSize(c))
      [] c.kind = "v3fixed"  -> CanRead(s, V3FixedSize(c))
      [] c.kind = "bitfield" -> CanRead(s, Len(c.mBitField))
      [] c.kind = "range"    -> CanRead(s, RangeSize(c).n)

LeafRead(c, s) ==
    CASE c.kind = "integral" -> IntegralRead(c, s)
      [] c.kind = "float"    -> FloatRead(c, s)
      [] c.kind = "md5sum"   -> Md5SumRead(c, s)
      [] c.kind = "string"   -> StringRead(c, s)
      [] c.kind = "v2fixed"  -> V2FixedRead(c, s)
      [] c.kind = "v3fixed"  -> V3FixedRead(c, s)
      [] c.kind = "bitfield" -> BitFieldRead(c, s)
      [] c.kind = "range"    -> RangeRead(c, s)

Exhausted(h, s) == [h |-> h, s |-> s, n |-> 0, err |-> "StreamExhausted"]

\* MessageComponentArray::read(): the count through the count field (a
\* count outside the bounds is the error CountOutOfBounds), then that many
\* new elements, read in turn, in place of the old elements.  A
\* read that fails leaves the array as it was.
ArrayRead(h, id, s) ==
    LET c   == h[id]
        cnt == RangeRead(c.mCountField, s)
        h1  == FreeAll(h, c.mFields)
        mk  == Materialize(h1, cnt.c.mValue, <<>>)
        h2  == [mk.h EXCEPT ![id].mFields = mk.ids,
                            ![id].mCountField = cnt.c,
                            ![id].mCachedSizeValid = FALSE]
        rd  == ReadAll(h2, mk.ids, cnt.s, cnt.n)
    IN  IF ~CanRead(s, RangeSize(c.mCountField).n) THEN Exhausted(h, s)
        ELSE IF cnt.err # Ok
        THEN [h |-> h, s |-> cnt.s, n |-> cnt.n, err |-> "CountOutOfBounds"]
        ELSE IF rd.err # Ok
        THEN [h |-> h, s |-> rd.s, n |-> rd.n, err |-> rd.err]
        ELSE rd

\* MessageComponentGroup::read(): the presence bit-field, the required
\* fields, then the optional fields whose bit is set; the others keep their
\* value.  A read that fails leaves the group as it was.
GroupRead(h, id, s) ==
    LET c   == h[id]
        ind == BitFieldRead(c.mOptionalIndicator, s)
        h1  == [h EXCEPT ![id].mOptionalIndicator = ind.c,
                         ![id].mCachedSizeValid = FALSE]
        req == ReadAll(h1, c.mRequiredFields, ind.s, ind.n)
        opt == ReadAll(req.h, Present(c.mOptionalFields, ind.c.mBitField),
                       req.s, req.n)
    IN  IF ~CanRead(s, Len(c.mOptionalIndicator.mBitField))
        THEN Exhausted(h, s)
        ELSE IF req.err # Ok
        THEN [h |-> h, s |-> req.s, n |-> req.n, err |-> req.err]
        ELSE IF opt.err # Ok
        THEN [h |-> h, s |-> opt.s, n |-> opt.n, err |-> opt.err]
        ELSE opt

ReadCall(h, id, s) ==
    LET c == h[id] IN
    CASE IsLeaf(c) ->
            IF ~LeafCanRead(c, s) THEN Exhausted(h, s)
            ELSE LET r == LeafRead(c, s)
                 IN  [h |-> [h EXCEPT ![id] = r.c], s |-> r.s, n |-> r.n,
                      err |-> r.err]
      [] c.kind = "array" -> ArrayRead(h, id, s)
      [] c.kind = "group" -> GroupRead(h, id, s)

\* ---- MessageComponentGroup::addField, hasField
\* addField(field, optional): the field joins the optional or the required
\* sequence, an optional field adds one presence bit, a field with a name is
\* entered in the name table under that name, and the cached size is
\* dropped.
addField(h, id, field, optional) ==
    LET name == getFieldName(h[field])
        h1 == IF optional
              THEN [h EXCEPT
                      ![id].mOptionalFields = Append(@, field),
                      ![id].mOptionalIndicator.mBitField = Append(@, 0)]
              ELSE [h EXCEPT ![id].mRequiredFields = Append(@, field)]
    IN  [h1 EXCEPT
           ![id].mCachedSizeValid = FALSE,
           ![id].mNameTable =
               IF name = "" THEN @
               ELSE [k \in DOMAIN @ \cup {name} |->
                        IF k = name THEN field ELSE @[k]]]

hasField(c, name) == name \in DOMAIN c.mNameTable

\* ---- MessageComponentArray: a new element.
ArrayAppend(h, id) ==
    LET e == Materialize(h, 1, <<>>)
    IN  [e.h EXCEPT ![id].mFields = Append(@, e.ids[1]),
                    ![id].mCountField = RangeSet(@, Len(h[id].mFields) + 1),
                    ![id].mCachedSizeValid = FALSE]

\* ---- what the caller can observe
\* The value a component carries on the wire: an absent optional field has
\* none.
RECURSIVE Value(_, _)
Value(h, id) ==
    LET c == h[id] IN
    CASE c.kind = "bitfield" -> c.mBitField
      [] c.kind = "array" -> [i \in DOMAIN c.mFields |-> Value(h, c.mFields[i])]
      [] c.kind = "group" ->
            [present |-> c.mOptionalIndicator.mBitField,
             required |-> [i \in DOMAIN c.mRequiredFields |->
                              Value(h, c.mRequiredFields[i])],
             optional |-> [i \in DOMAIN c.mOptionalFields |->
                              IF c.mOptionalIndicator.mBitField[i] = 1
                              THEN <<Value(h, c.mOptionalFields[i])>>
                              ELSE <<>>]]
      [] OTHER -> c.mValue

\* Everything get(), getFieldName() and size() tell of a component and of
\* the components under it.
RECURSIVE Observe(_, _)
Observe(h, id) ==
    LET c == h[id] IN
    [name |-> c.mFieldName,
     size |-> SizeCall(h, id).n,
     value |-> CASE c.kind = "bitfield" -> c.mBitField
                 [] c.kind = "array" -> <<>>
                 [] c.kind = "group" ->
                       <<c.mOptionalIndicator.mBitField, DOMAIN c.mNameTable>>
                 [] OTHER -> c.mValue,
     children |-> [i \in DOMAIN Children(c) |-> Observe(h, Children(c)[i])]]

(***************************************************************************)
(* Part V.  Writing a component to a stream and reading it back            *)
(* The caller builds a component (src) and a second one of the same type   *)
(* (dst), sets values through the pointers it holds, receives streams from *)
(* the network into src, writes src to a stream and reads that stream into *)
(* dst.                                                                    *)
(***************************************************************************)

\* Bound: the length of a stream that arrives from the network.
InBits == 6

CfgIdle ==
    /\ DefaultsLoaded = FALSE
    /\ configver = CONFIGVERSIONSTR
    /\ cvar_defflags = 0
    /\ loadPc = "idle"
    /\ cfgFiles = [p \in ConfigPaths |-> Absent]
    /\ argConfig = NoArg
    /\ lastSave = Saved(0, "none")
    /\ nCalls = 0

NoRet == [op |-> "none", obj |-> 0, n |-> 0, err |-> Ok, arg |-> <<>>]

\* The leaf components as their default constructors leave them: the seven
\* typedefs of the integral template and instantiations of it with a SIZE
\* of its own, narrower and wider than T; the two vectors, whose fields
\* are unassigned (the words 0, 1, 2); ranges of seven bounds.
LeafTypes ==
    {NewIntegral(T, DefaultSIZE(T), Zero(T)) : T \in IntTypes}
    \cup {NewIntegral(p[1], p[2], Zero(p[1])) :
             p \in {<<"u8", 4>>, <<"s8", 4>>, <<"s16", 12>>, <<"s32", 20>>,
                    <<"s8", 16>>}}
    \cup {NewFloat(ZeroWord), NewString(<<>>), NewBitField(3), NewMd5Sum,
          NewV2Fixed(Indeterminate(0), Indeterminate(1)),
          NewV3Fixed(Indeterminate(0), Indeterminate(1), Indeterminate(2))}
    \cup {NewRange(0, b[1], b[2]) :
             b \in {<<0, 255>>, <<-5, 5>>, <<MININT, MAXINT>>, <<0, 0>>,
                    <<-3, 4>>, <<0, MAXINT>>, <<1, 3>>}}

\* An array of 2 to 4 elements.
BuildArray(h, at) == [h EXCEPT ![at] = NewArray(2, 4)]

\* A group of one required and two optional fields.
BuildGroup(h, at) ==
    LET h0 == [h EXCEPT ![at] = NewGroup,
                        ![at + 1] = setFieldName(NewIntegral("bool", 1, 0), "r"),
                        ![at + 2] = setFieldName(NewRange(0, 0, 2), "a"),
                        ![at + 3] = setFieldName(NewIntegral("bool", 1, 0), "b")]
    IN  addField(addField(addField(h0, at, at + 1, FALSE), at, at + 2, TRUE),
                 at, at + 3, TRUE)

WireHeaps ==
    {[EmptyHeap EXCEPT ![1] = c] : c \in LeafTypes}
    \cup {BuildArray(EmptyHeap, 1), BuildGroup(EmptyHeap, 1)}

WireSrc == 1

\* The values the caller passes to set().  Integrals: the least and the
\* greatest T, those around 0 and, for a SIZE narrower than T, the greatest
\* value of SIZE bits and the one after it.  Strings: short ones, with and
\* without a zero character, and long ones around the length at which
\* 8 * (n + 1) reaches 2^16.  Digest texts: well-formed in lowercase and in
\* uppercase, one digit short, and with a character that is no digit.
ValuesOf(c) ==
    CASE c.kind = "integral" /\ c.T = "u32" ->
            {ZeroWord, ToWord(1), ToWord(MININT),
             [hi |-> U16Mod - 1, lo |-> U16Mod - 1]}
      [] c.kind = "integral" /\ c.T = "s32" ->
            {MININT, -1, 0, 1, MAXINT}
            \cup (IF c.SIZE < TypeBits(c.T) THEN {2^c.SIZE - 1, 2^c.SIZE}
                  ELSE {})
      [] c.kind = "integral" /\ c.T = "bool" -> {0, 1}
      [] c.kind = "integral" /\ c.T \in {"s8", "s16"} ->
            {0 - 2^(TypeBits(c.T) - 1), -1, 0, 1, 2^(TypeBits(c.T) - 1) - 1}
            \cup (IF c.SIZE < TypeBits(c.T) THEN {2^c.SIZE - 1, 2^c.SIZE}
                  ELSE {})
      [] c.kind = "integral" /\ c.T \in {"u8", "u16"} ->
            {0, 1, 2^TypeBits(c.T) - 1}
            \cup (IF c.SIZE < TypeBits(c.T) THEN {2^c.SIZE - 1, 2^c.SIZE}
                  ELSE {})
      [] c.kind = "float" ->
            {ZeroWord, [hi |-> 32768, lo |-> 0], [hi |-> 16256, lo |-> 0],
             [hi |-> 32704, lo |-> 1]}
      [] c.kind = "md5sum" ->
            {[i \in 1..32 |-> HexChar((i - 1) % 16)],
             [i \in 1..32 |-> IF i % 2 = 1 THEN 70 ELSE 57],
             [i \in 1..31 |-> 49],
             [i \in 1..32 |-> IF i = 32 THEN 103 ELSE 97]}
      [] c.kind = "string" ->
            UNION {[1..n -> {0, 65, 66}] : n \in 0..3}
            \cup (IF hist.long
                  THEN {[i \in 1..n |-> 65] : n \in {8190, 8191, 8192}}
                  ELSE {})
      [] c.kind = "v2fixed" ->
            {[x |-> Fixed(a), y |-> Fixed(b)] :
                a \in {MININT, -1, 7}, b \in {0, MAXINT}}
      [] c.kind = "v3fixed" ->
            {[x |-> Fixed(a), y |-> Fixed(b), z |-> Fixed(d)] :
                a \in {MININT, 7}, b \in {-1, MAXINT}, d \in {0, 1}}
      [] c.kind = "bitfield" -> [1..Len(c.mBitField) -> {0, 1}]
      [] c.kind = "range" ->
            {c.mLowerBound, c.mUpperBound, 0}
            \cup (IF c.mLowerBound > MININT THEN {c.mLowerBound - 1} ELSE {})
            \cup (IF c.mUpperBound < MAXINT THEN {c.mUpperBound + 1} ELSE {})

LeafSet(c, value) ==
    CASE c.kind = "integral" -> IntegralSet(c, value)
      [] c.kind = "float"    -> FloatSet(c, value)
      [] c.kind = "md5sum"   -> setFromString(c, value)
      [] c.kind = "string"   -> StringSet(c, value)
      [] c.kind = "v2fixed"  -> V2FixedSet(c, value)
      [] c.kind = "v3fixed"  -> V3FixedSet(c, value)
      [] c.kind = "bitfield" -> BitFieldSet(c, value)
      [] c.kind = "range"    -> RangeSet(c, value)

LeafGet(c) ==
    CASE c.kind = "bitfield" -> c.mBitField
      [] c.kind = "md5sum"   -> c.mCachedString
      [] OTHER -> c.mValue

\* The error set() signals.
LeafSetError(c, value) ==
    IF c.kind = "md5sum" /\ ~WellFormedDigest(value)
    THEN "MalformedDigestText" ELSE Ok

\* hist is what the caller remembers: the heap as it constructed it, and
\* whether it sets long strings.
WireInit ==
    /\ CfgIdle
    /\ heap \in WireHeaps
    /\ stream = EmptyStream
    /\ ret = NoRet
    /\ hist = [init |-> heap, long |-> FALSE]

\* delete dst: the caller drops the component it read into.
DropDst(h) == IF ret.op = "read" THEN FreeAll(h, <<ret.obj>>) ELSE h

\* dst = new X(...): a component of the type of src, as its constructor
\* leaves it, in the first free cell.  The fields of a vector are again
\* unassigned, whatever the memory of dst held before: the words 3, 4, 5.
NewDst(h) ==
    LET c == hist.init[WireSrc] IN
    CASE c.kind = "array" -> BuildArray(h, Alloc(h))
      [] c.kind = "group" -> BuildGroup(h, Alloc(h))
      [] c.kind = "v2fixed" ->
            [h EXCEPT ![Alloc(h)] =
                NewV2Fixed(Indeterminate(3), Indeterminate(4))]
      [] c.kind = "v3fixed" ->
            [h EXCEPT ![Alloc(h)] =
                NewV3Fixed(Indeterminate(3), Indeterminate(4),
                           Indeterminate(5))]
      [] OTHER -> [h EXCEPT ![Alloc(h)] = c]

\* src->set(value)
WireSet ==
    /\ IsLeaf(heap[WireSrc])
    /\ \E v \in ValuesOf(heap[WireSrc]) :
          /\ LeafGet(heap[WireSrc]) # v
          /\ heap' = [DropDst(heap) EXCEPT ![WireSrc] = LeafSet(@, v)]
          /\ ret' = [NoRet EXCEPT !.op = "set", !.arg = <<v>>,
                                  !.err = LeafSetError(heap[WireSrc], v)]
    /\ stream' = EmptyStream
    /\ UNCHANGED hist
    /\ UNCHANGED cfgVars

\* src->clear()
WireClear ==
    /\ heap' = ClearCall(DropDst(heap), WireSrc)
    /\ ret' = [NoRet EXCEPT !.op = "clear"]
    /\ stream' = EmptyStream
    /\ UNCHANGED hist
    /\ UNCHANGED cfgVars

\* src->size()
WireSize ==
    \E r \in {SizeCall(DropDst(heap), WireSrc)} :
      /\ heap' = r.h
      /\ ret' = [NoRet EXCEPT !.op = "size", !.n = r.n]
      /\ stream' = EmptyStream
      /\ UNCHANGED hist
      /\ UNCHANGED cfgVars

\* src->read(stream) of a stream that arrived from the network, for a
\* composite src (the values of a leaf are set).
WireInbound ==
    \E bits \in [1..InBits -> {0, 1}] :
    \E r \in {ReadCall(DropDst(heap), WireSrc, bits)} :
      /\ ~IsLeaf(heap[WireSrc])
      /\ heap' = r.h
      /\ ret' = [op |-> "inbound", obj |-> 0, n |-> r.n, err |-> r.err,
                 arg |-> SubSeq(bits, 1, InBits - Len(r.s))]
      /\ stream' = EmptyStream
      /\ UNCHANGED hist
      /\ UNCHANGED cfgVars

\* A new element in the array src; the cells a dst with mMaxCount elements
\* needs are left free.
WireAppend ==
    /\ heap[WireSrc].kind = "array"
    /\ FreeCells(DropDst(heap)) > heap[WireSrc].mMaxCount + 1
    /\ heap' = ArrayAppend(DropDst(heap), WireSrc)
    /\ ret' = [NoRet EXCEPT !.op = "append"]
    /\ stream' = EmptyStream
    /\ UNCHANGED hist
    /\ UNCHANGED cfgVars

\* src->write(stream) to an empty stream.
WireWrite ==
    /\ ret.op \notin {"write", "read"}
    /\ \E r \in {WriteCall(heap, WireSrc, EmptyStream)} :
       /\ heap' = r.h
       /\ stream' = r.s
       /\ ret' = [NoRet EXCEPT !.op = "write", !.n = r.n, !.err = r.err]
       /\ UNCHANGED hist
    /\ UNCHANGED cfgVars

\* dst = new X(...); dst->read(stream), of the stream src was written to.
WireRead ==
    /\ ret.op = "write" /\ ret.err = Ok
    /\ \E r \in {ReadCall(NewDst(heap), Alloc(heap), stream)} :
       /\ heap' = r.h
       /\ stream' = r.s
       /\ ret' = [NoRet EXCEPT !.op = "read", !.obj = Alloc(heap), !.n = r.n,
                               !.err = r.err]
       /\ UNCHANGED hist
    /\ UNCHANGED cfgVars

WireNext ==
    \/ WireSet
    \/ WireClear
    \/ WireSize
    \/ WireInbound
    \/ WireAppend
    \/ WireWrite
    \/ WireRead

SpecWire == WireInit /\ [][WireNext]_vars

\* ---- strings of every length
StringInit ==
    /\ CfgIdle
    /\ heap = [EmptyHeap EXCEPT ![WireSrc] = NewString(<<>>)]
    /\ stream = EmptyStream
    /\ ret = NoRet
    /\ hist = [init |-> heap, long |-> TRUE]

StringNext ==
    \/ WireSet
    \/ WireClear
    \/ WireSize
    \/ WireWrite
    \/ WireRead

SpecString == StringInit /\ [][StringNext]_vars

\* ---- the config file
SpecConfig == CfgInit /\ [][CfgNext]_vars

\* ---- a group the caller builds and keeps using
\* Bound: the number of fields the caller adds to the group.
MaxFields == 2

\* Bound: the length of a stream the group reads.
GrpBits == 3

GroupId == 1

\* The components the caller passed to addField, each with the flag it
\* passed.
Added == {hist.added[i].id : i \in DOMAIN hist.added}

GrpInit ==
    /\ CfgIdle
    /\ heap = [EmptyHeap EXCEPT ![GroupId] = NewGroup]
    /\ stream = EmptyStream
    /\ ret = NoRet
    /\ hist = [added |-> <<>>]

\* field = new X; field->setFieldName(name); group.addField(field, optional)
GrpAddField ==
    /\ Len(hist.added) < MaxFields
    /\ \E proto \in {NewIntegral("bool", 1, 0), NewString(<<>>)},
          name \in {"", "a", "b"}, optional \in BOOLEAN :
       \E id \in {Alloc(heap)} :
          /\ heap' = addField([heap EXCEPT ![id] = setFieldName(proto, name)],
                              GroupId, id, optional)
          /\ hist' = [hist EXCEPT !.added =
                         Append(@, [id |-> id, optional |-> optional])]
          /\ ret' = [NoRet EXCEPT !.op = "addField"]
    /\ UNCHANGED <<stream, cfgVars>>

\* field->setFieldName(name), on a field of the group
GrpSetFieldName ==
    /\ \E id \in Added, name \in {"", "a", "b"} :
          /\ name # getFieldName(heap[id])
          /\ heap' = [heap EXCEPT ![id] = setFieldName(@, name)]
          /\ ret' = [NoRet EXCEPT !.op = "setFieldName"]
    /\ UNCHANGED <<stream, hist, cfgVars>>

\* field->set(value), on a field of the group
GrpFieldSet ==
    /\ \E id \in Added :
       \E v \in IF heap[id].kind = "string" THEN {<<>>, <<65>>} ELSE {0, 1} :
          /\ v # LeafGet(heap[id])
          /\ heap' = [heap EXCEPT ![id] = LeafSet(@, v)]
          /\ ret' = [NoRet EXCEPT !.op = "set"]
    /\ UNCHANGED <<stream, hist, cfgVars>>

\* field->clear(), on a field of the group
GrpFieldClear ==
    /\ \E id \in Added :
          /\ heap' = [heap EXCEPT ![id] = LeafClear(@)]
          /\ ret' = [NoRet EXCEPT !.op = "clear"]
    /\ UNCHANGED <<stream, hist, cfgVars>>

\* group.size()
GrpSize ==
    /\ \E r \in {SizeCall(heap, GroupId)} :
          /\ heap' = r.h
          /\ ret' = [NoRet EXCEPT !.op = "size", !.obj = GroupId, !.n = r.n]
    /\ UNCHANGED <<stream, hist, cfgVars>>

\* group.read(stream) of a stream that arrived from the network
GrpRead ==
    /\ \E bits \in [1..GrpBits -> {0, 1}] :
       \E r \in {ReadCall(heap, GroupId, bits)} :
          /\ heap' = r.h
          /\ ret' = [NoRet EXCEPT !.op = "read", !.obj = GroupId, !.n = r.n,
                                  !.err = r.err]
    /\ UNCHANGED <<stream, hist, cfgVars>>

\* group.clear()
GrpClear ==
    /\ heap' = ClearCall(heap, GroupId)
    /\ ret' = [NoRet EXCEPT !.op = "clear", !.obj = GroupId]
    /\ UNCHANGED <<stream, hist, cfgVars>>

GrpNext ==
    \/ GrpAddField
    \/ GrpSetFieldName
    \/ GrpFieldSet
    \/ GrpFieldClear
    \/ GrpSize
    \/ GrpRead
    \/ GrpClear

SpecGroup == GrpInit /\ [][GrpNext]_vars

\* ---- a component and its clone
OrigId == 1

\* The components the caller clones: leaves, an array of 1 to 2 booleans,
\* and a group of a required and an optional boolean.
CloneHeaps ==
    {[EmptyHeap EXCEPT ![OrigId] = c] :
        c \in {setFieldName(NewIntegral("s8", 8, 0), "n"), NewString(<<65>>),
               NewRange(0, -5, 5), NewBitField(2)}}
    \cup {[EmptyHeap EXCEPT ![OrigId] = NewArray(1, 2)],
          addField(addField(
              [EmptyHeap EXCEPT
                  ![OrigId] = NewGroup,
                  ![OrigId + 1] = setFieldName(NewIntegral("bool", 1, 0), "r"),
                  ![OrigId + 2] = setFieldName(NewIntegral("bool", 1, 0), "b")],
              OrigId, OrigId + 1, FALSE), OrigId, OrigId + 2, TRUE)}

CloneInit ==
    /\ CfgIdle
    /\ heap \in CloneHeaps
    /\ stream = EmptyStream
    /\ ret = NoRet
    /\ hist = [clone |-> 0]

\* The original and, once made, the clone.
Roots == {OrigId} \cup (IF hist.clone = 0 THEN {} ELSE {hist.clone})

\* What the caller reaches from a root: the root, and the fields of a group
\* by their name.
Reach(h, root) ==
    {root} \cup (IF h[root].kind = "group"
                 THEN {h[root].mNameTable[name] :
                          name \in DOMAIN h[root].mNameTable}
                 ELSE {})

\* copy = orig->clone()
CloneOp ==
    /\ hist.clone = 0
    /\ FreeCells(heap) >= Cardinality(Tree(heap, OrigId))
    /\ \E r \in {CloneCall(heap, OrigId)} :
          /\ heap' = r.h
          /\ hist' = [hist EXCEPT !.clone = r.id]
    /\ ret' = [NoRet EXCEPT !.op = "clone", !.obj = OrigId]
    /\ UNCHANGED <<stream, cfgVars>>

\* c->set(value), c reached from the original or from the clone
CloneSet ==
    /\ \E root \in Roots : \E id \in Reach(heap, root) :
          /\ IsLeaf(heap[id])
          /\ \E v \in CASE heap[id].kind = "integral" -> {0, 1}
                         [] heap[id].kind = "string" -> {<<>>, <<65>>}
                         [] heap[id].kind = "bitfield" -> {<<0, 0>>, <<1, 0>>}
                         [] heap[id].kind = "range" -> {0, 2, 6} :
                /\ v # LeafGet(heap[id])
                /\ heap' = [heap EXCEPT ![id] = LeafSet(@, v)]
          /\ ret' = [NoRet EXCEPT !.op = "set", !.obj = root]
    /\ UNCHANGED <<stream, hist, cfgVars>>

\* c->clear()
CloneClear ==
    /\ \E root \in Roots : \E id \in Reach(heap, root) :
          /\ heap' = ClearCall(heap, id)
          /\ ret' = [NoRet EXCEPT !.op = "clear", !.obj = root]
    /\ UNCHANGED <<stream, hist, cfgVars>>

\* c->read(stream)
CloneRead ==
    /\ \E root \in Roots : \E id \in Reach(heap, root) :
       \E bits \in {[i \in 1..InBits |-> (i + k) % 2] : k \in {0, 1}} :
       \E r \in {ReadCall(heap, id, bits)} :
          /\ heap' = r.h
          /\ ret' = [NoRet EXCEPT !.op = "read", !.obj = root]
    /\ UNCHANGED <<stream, hist, cfgVars>>

\* if (!group->hasField("n")) group->addField(field, optional), with a new
\* BoolMessageComponent named "n", while the heap has room for it and for
\* its clone.
CloneAddField ==
    /\ \E root \in Roots : \E optional \in BOOLEAN :
          /\ heap[root].kind = "group"
          /\ ~hasField(heap[root], "n")
          /\ FreeCells(heap) > (IF hist.clone = 0
                                THEN Cardinality(Tree(heap, OrigId)) + 1
                                ELSE 0)
          /\ \E id \in {Alloc(heap)} :
                heap' = addField([heap EXCEPT ![id] =
                                     setFieldName(NewIntegral("bool", 1, 0), "n")],
                                 root, id, optional)
          /\ ret' = [NoRet EXCEPT !.op = "addField", !.obj = root]
    /\ UNCHANGED <<stream, hist, cfgVars>>

\* *a = *b, for two arrays
CloneAssign ==
    /\ \E to \in Roots, from \in Roots :
          /\ to # from
          /\ heap[to].kind = "array"
          /\ heap' = ArrayAssign(heap, to, from)
          /\ ret' = [NoRet EXCEPT !.op = "assign", !.obj = to]
    /\ UNCHANGED <<stream, hist, cfgVars>>

CloneNext ==
    \/ CloneOp
    \/ CloneAssign
    \/ CloneSet
    \/ CloneClear
    \/ CloneRead
    \/ CloneAddField

SpecClone == CloneInit /\ [][CloneNext]_vars

(***************************************************************************)
(* Part VI.  Properties                                                    *)
(***************************************************************************)

\* C10: M_SaveDefaults opens and writes the config file only in a state
\* where DefaultsLoaded is true; a call made while DefaultsLoaded is false
\* returns without opening the file and without changing configver;
\* DefaultsLoaded becomes true only at the end of M_LoadDefaults and never
\* becomes false again.
SaveGatedOnLoad ==
    [][/\ DefaultsLoaded => DefaultsLoaded'
       /\ (~DefaultsLoaded /\ DefaultsLoaded') =>
             (loadPc = "alias" /\ loadPc' = "idle")
       /\ (lastSave' # lastSave /\ ~DefaultsLoaded) =>
             /\ lastSave'.outcome = "skipped"
             /\ configver' = configver
             /\ cfgFiles' = cfgFiles
       /\ (lastSave' # lastSave /\ DefaultsLoaded) =>
             /\ lastSave'.outcome \in {"written", "openfailed"}
             /\ configver' = CONFIGVERSIONSTR
       /\ cfgFiles' # cfgFiles =>
             (DefaultsLoaded /\ lastSave'.outcome = "written")]_vars

\* M_SaveDefaults was called in the middle of M_LoadDefaults, after the
\* config file set configver, and returned at its guard.
SaveSkippedDuringLoad ==
    /\ lastSave.outcome = "skipped"
    /\ loadPc = "execd"
    /\ cvar_defflags = CVAR_ARCHIVE
    /\ configver = "old"
    /\ ~DefaultsLoaded

\* ---- the wire: what the properties speak of
Src == heap[WireSrc]
\* The component the last read() filled.
Dst == heap[ret.obj]

\* The n-bit encoding of x (0 <= x < 2^31, n <= 31), most significant bit
\* first.
Bits(x, n) == [i \in 1..n |-> (x \div (2^(n - i))) % 2]

\* 2^k - 1 for k in 0..31.
Pow2Minus1(k) == IF k = 31 THEN MAXINT ELSE 2^k - 1

\* Whether U - L + 1 <= 2^k.
Fits(L, U, k) ==
    \/ k = 32
    \/ IF L >= 0 THEN U - L <= Pow2Minus1(k) ELSE U <= Pow2Minus1(k) + L

\* ceil(log2(U - L + 1))
CeilLog2Count(L, U) ==
    CHOOSE k \in 0..32 : Fits(L, U, k) /\ (k = 0 \/ ~Fits(L, U, k - 1))

\* v - L (L <= v) in n bits, n = CeilLog2Count(L, U).
OffsetBits(v, L, n) ==
    IF L >= 0 \/ v <= MAXINT + L
    THEN (IF n = 32 THEN <<0>> \o Bits(v - L, 31) ELSE Bits(v - L, n))
    ELSE <<1>> \o Bits(((v - MAXINT) - 1) - L, 31)

\* The bits of a boolean or range leaf on the wire.
FieldBits(c) ==
    IF c.kind = "range"
    THEN OffsetBits(c.mValue, c.mLowerBound,
                    CeilLog2Count(c.mLowerBound, c.mUpperBound))
    ELSE Bits(c.mValue, 1)

RECURSIVE Flat(_)
Flat(seqs) == IF seqs = <<>> THEN <<>> ELSE Head(seqs) \o Flat(Tail(seqs))

\* The component id holds a value its encoding has room for: an integral
\* whose SIZE is narrower than T, a value of 0 .. 2^SIZE - 1; a range, a
\* value within its bounds; a string, no zero character; an array, a number
\* of elements within its count bounds, each holding such a value; a group,
\* such a value in every required and every present optional field.
RECURSIVE Encodable(_, _)
Encodable(h, id) ==
    LET c == h[id] IN
    CASE c.kind = "integral" ->
            \/ c.SIZE >= TypeBits(c.T)
            \/ IF c.T = "u32" THEN SigBits(c.mValue) <= c.SIZE
               ELSE 0 <= c.mValue /\ c.mValue <= Pow2Minus1(c.SIZE)
      [] c.kind = "range" ->
            c.mLowerBound <= c.mValue /\ c.mValue <= c.mUpperBound
      [] c.kind = "string" -> 0 \notin Elems(c.mValue)
      [] c.kind = "array" ->
            /\ c.mMinCount <= Len(c.mFields) /\ Len(c.mFields) <= c.mMaxCount
            /\ \A i \in DOMAIN c.mFields : Encodable(h, c.mFields[i])
      [] c.kind = "group" ->
            /\ \A i \in DOMAIN c.mRequiredFields :
                  Encodable(h, c.mRequiredFields[i])
            /\ \A i \in DOMAIN c.mOptionalFields :
                  c.mOptionalIndicator.mBitField[i] = 1 =>
                      Encodable(h, c.mOptionalFields[i])
      [] OTHER -> TRUE

\* The component types the round trip is stated for.
RoundTripKinds ==
    {"integral", "range", "string", "v2fixed", "v3fixed", "bitfield",
     "array", "group"}

\* C1 as stated: a write followed by a read of the stream into a fresh
\* component of the same type leaves that component with the value written,
\* and read returns the bit count write returned, whatever the value.
RoundTripAnyValue ==
    [][(ret.op = "write" /\ ret.err = Ok /\ ret'.op = "read"
          /\ Src.kind \in RoundTripKinds) =>
          /\ ret'.err = Ok
          /\ Value(heap', ret'.obj) = Value(heap, WireSrc)
          /\ ret'.n = ret.n]_vars

\* C1: for every component type, a component that holds a value its
\* encoding has room for (an integral narrower than its kind a value of
\* 0 .. 2^width - 1, a range a value within its bounds, an array a count
\* within its bounds, a string no zero character, and so every element and
\* every required or present optional field) is written without error, a
\* read of the stream into a fresh component of the same type leaves that
\* component with the value written and the stream empty, and read returns
\* the bit count write returned.
RoundTrip ==
    [][(Src.kind \in RoundTripKinds /\ Encodable(heap, WireSrc)) =>
          /\ ret'.op = "write" => ret'.err = Ok
          /\ (ret.op = "write" /\ ret'.op = "read") =>
                /\ ret'.err = Ok
                /\ Value(heap', ret'.obj) = Value(heap, WireSrc)
                /\ ret'.n = ret.n
                /\ stream' = EmptyStream]_vars

\* A signed 8-bit integer holding -1 was written and read back.
RoundTripDone ==
    /\ ret.op = "read"
    /\ Src.kind = "integral" /\ Src.T = "s8" /\ Src.SIZE = 8
    /\ Src.mValue = -1
    /\ Dst.mValue = -1

\* C3: a group's write emits the presence bits, one per optional field in
\* declaration order, then every required field, then the optional fields
\* whose bit is set, and nothing for an absent field; with only the second
\* of two optional fields present the presence bits are 01, and a read of
\* the stream marks the first absent and the second present with the value
\* written.
GroupPresenceLaw ==
    Src.kind = "group" =>
      LET ind == Src.mOptionalIndicator.mBitField
          req == [i \in DOMAIN Src.mRequiredFields |->
                     FieldBits(heap[Src.mRequiredFields[i]])]
          opt == [i \in DOMAIN Src.mOptionalFields |->
                     IF ind[i] = 1 THEN FieldBits(heap[Src.mOptionalFields[i]])
                     ELSE <<>>]
      IN  /\ Len(ind) = Len(Src.mOptionalFields)
          /\ (ret.op = "write" /\ ret.err = Ok) =>
                /\ stream = ind \o Flat(req) \o Flat(opt)
                /\ ret.n = Len(stream)
          /\ (ret.op = "write" /\ ind = <<0, 1>>) =>
                /\ ret.err = Ok
                /\ SubSeq(stream, 1, 2) = <<0, 1>>
                /\ Len(stream) = 4
          /\ ret.op = "read" =>
                /\ ret.err = Ok
                /\ Dst.mOptionalIndicator.mBitField = ind
                /\ \A i \in DOMAIN Src.mRequiredFields :
                      heap[Dst.mRequiredFields[i]].mValue
                          = heap[Src.mRequiredFields[i]].mValue
                /\ \A i \in DOMAIN Src.mOptionalFields :
                      heap[Dst.mOptionalFields[i]].mValue
                          = IF ind[i] = 1
                            THEN heap[Src.mOptionalFields[i]].mValue
                            ELSE hist.init[Src.mOptionalFields[i]].mValue

\* A group with only its second optional field present, holding 1, while
\* the absent first holds 2, was written and read back.
SecondOptionalOnly ==
    /\ ret.op = "read"
    /\ Src.kind = "group"
    /\ Src.mOptionalIndicator.mBitField = <<0, 1>>
    /\ heap[Src.mOptionalFields[1]].mValue = 2
    /\ heap[Src.mOptionalFields[2]].mValue = 1
    /\ Dst.mOptionalIndicator.mBitField = <<0, 1>>

\* C4: size() of a range-bounded integer is ceil(log2(U - L + 1)) for the
\* bounds L <= U it was constructed with (8 for [0,255], 4 for [-5,5], 32
\* for the default bounds), whatever its value and however often size() was
\* called before.
RangeWidthLaw ==
    (Src.kind = "range" /\ ret.op = "size") =>
      LET L == hist.init[WireSrc].mLowerBound
          U == hist.init[WireSrc].mUpperBound
      IN  /\ ret.n = CeilLog2Count(L, U)
          /\ (L = 0 /\ U = 255) => ret.n = 8
          /\ (L = -5 /\ U = 5) => ret.n = 4
          /\ (L = MININT /\ U = MAXINT) => ret.n = 32

\* size() was called again, with the size cached, on a range over [-5,5]
\* whose value was set outside the bounds.
RangeSizedAgain ==
    /\ ret.op = "size"
    /\ Src.kind = "range" /\ Src.mLowerBound = -5 /\ Src.mUpperBound = 5
    /\ Src.mValue = 6
    /\ Src.mCachedSizeValid

\* C5: set(v) stores v and clear() stores 0, inside the bounds or not;
\* write() of a value outside [L,U] signals ValueOutOfRange and emits
\* nothing; write() of a value inside emits value - L in size() bits.
RangeWriteChecked ==
    Src.kind = "range" =>
      LET L == Src.mLowerBound
          U == Src.mUpperBound
          v == Src.mValue
      IN  /\ ret.op = "set" => v = ret.arg[1]
          /\ ret.op = "clear" => v = 0
          /\ ret.op = "write" =>
                IF v < L \/ v > U
                THEN ret.err = "ValueOutOfRange" /\ stream = EmptyStream
                ELSE /\ ret.err = Ok
                     /\ stream = OffsetBits(v, L, CeilLog2Count(L, U))
                     /\ ret.n = Len(stream)

\* write() was called on a range over [1,3] that clear() left at 0.
RangeClearedOutOfBounds ==
    /\ ret.op = "write"
    /\ ret.err = "ValueOutOfRange"
    /\ Src.kind = "range" /\ Src.mLowerBound = 1
    /\ Src.mValue = 0

\* C6: an array is serialized only with an element count within
\* [minCount, maxCount]: write() with a count outside yields
\* CountOutOfBounds and emits nothing, read() of a decoded count outside
\* yields CountOutOfBounds, and a count inside that is written and read back
\* materializes that many elements, whatever the array held before.
ArrayBoundLaw ==
    Src.kind = "array" =>
      LET n == Len(Src.mFields)
          inside == Src.mMinCount <= n /\ n <= Src.mMaxCount
          els == [i \in 1..n |-> FieldBits(heap[Src.mFields[i]])]
      IN  /\ ret.op = "write" =>
                IF inside
                THEN /\ ret.err = Ok
                     /\ stream = Bits(n - Src.mMinCount, 2) \o Flat(els)
                     /\ ret.n = Len(stream)
                ELSE ret.err = "CountOutOfBounds" /\ stream = EmptyStream
          /\ ret.op = "inbound" =>
                LET d == Src.mMinCount + 2 * ret.arg[1] + ret.arg[2]
                IN  IF d > Src.mMaxCount
                    THEN ret.err = "CountOutOfBounds"
                    ELSE /\ ret.err = Ok
                         /\ n = d
                         /\ Flat(els) = SubSeq(ret.arg, 3, 2 + d)
                         /\ ret.n = 2 + d
          /\ ret.op = "read" =>
                /\ ret.err = Ok
                /\ inside
                /\ Len(Dst.mFields) = n
                /\ \A i \in 1..n : heap[Dst.mFields[i]].mValue
                                      = heap[Src.mFields[i]].mValue
                /\ Elems(Dst.mFields) \cap Elems(Src.mFields) = {}

\* An array of three elements was written and read back.
ArrayOfThreeRead ==
    /\ ret.op = "read"
    /\ Src.kind = "array"
    /\ Len(Src.mFields) = 3
    /\ Len(Dst.mFields) = 3
    /\ heap[Dst.mFields[2]].mValue = 1

\* C8: size() of a string of length n is 8 * (n + 1), and write() and
\* read() return that number, for every n.
StringSizeLaw ==
    Src.kind = "string" =>
      /\ ret.op \in {"size", "write"} => ret.n = 8 * (Len(Src.mValue) + 1)
      /\ ret.op = "read" => ret.n = 8 * (Len(Dst.mValue) + 1)

RECURSIVE SumSeq(_)
SumSeq(ns) == IF ns = <<>> THEN 0 ELSE Head(ns) + SumSeq(Tail(ns))

\* The size of a leaf as its own size() tells it.
LeafSizeNow(c) == SizeCall([EmptyHeap EXCEPT ![1] = c], 1).n

\* C2: group.size() returns the size of the presence bit-field plus the
\* current sizes of the required fields plus the current sizes of the
\* present optional fields, whatever was cached before a field changed.
GroupSizeCoherent ==
    (heap[GroupId].kind = "group" /\ ret.op = "size" /\ ret.obj = GroupId) =>
      LET g == heap[GroupId]
          ind == g.mOptionalIndicator.mBitField
      IN  ret.n = Len(ind)
                  + SumSeq([i \in DOMAIN g.mRequiredFields |->
                              LeafSizeNow(heap[g.mRequiredFields[i]])])
                  + SumSeq([i \in DOMAIN g.mOptionalFields |->
                              IF ind[i] = 1
                              THEN LeafSizeNow(heap[g.mOptionalFields[i]])
                              ELSE 0])

\* C9: every component passed to addField is in exactly one of the required
\* and the optional sequence, the optional one iff the flag was true; the
\* presence bit-field has one bit per optional field; and hasField is true
\* of the current non-empty name of every added component.
GroupStructure ==
    heap[GroupId].kind = "group" /\ "added" \in DOMAIN hist =>
      LET g == heap[GroupId] IN
      /\ \A i \in DOMAIN hist.added :
            LET f == hist.added[i] IN
            /\ Cardinality({k \in DOMAIN g.mOptionalFields :
                               g.mOptionalFields[k] = f.id})
                 = (IF f.optional THEN 1 ELSE 0)
            /\ Cardinality({k \in DOMAIN g.mRequiredFields :
                               g.mRequiredFields[k] = f.id})
                 = (IF f.optional THEN 0 ELSE 1)
            /\ getFieldName(heap[f.id]) # "" =>
                  hasField(g, getFieldName(heap[f.id]))
      /\ Len(g.mOptionalIndicator.mBitField) = Len(g.mOptionalFields)

\* C7: clone() yields a component with the field name and the values of
\* the original that has no object in common with it; a later set, clear,
\* read or addField through the clone leaves what get() and size() tell of
\* the original unchanged, and one through the original leaves the clone
\* unchanged.
CloneIndependent ==
    [][/\ (hist.clone = 0 /\ hist'.clone # 0) =>
             /\ Observe(heap', hist'.clone) = Observe(heap, OrigId)
             /\ Observe(heap', OrigId) = Observe(heap, OrigId)
       /\ hist'.clone # 0 =>
             Tree(heap', OrigId) \cap Tree(heap', hist'.clone) = {}
       /\ (hist.clone # 0 /\ ret'.obj = hist.clone) =>
             Observe(heap', OrigId) = Observe(heap, OrigId)
       /\ (hist.clone # 0 /\ ret'.obj = OrigId) =>
             Observe(heap', hist.clone) = Observe(heap, hist.clone)]_vars

\* A field of a cloned group, reached by its name through the clone, was
\* set to a value the original's field does not hold.
CloneFieldSet ==
    /\ hist.clone # 0
    /\ heap[OrigId].kind = "group"
    /\ ret.op = "set" /\ ret.obj = hist.clone
    /\ heap[heap[hist.clone].mNameTable["r"]].mValue = 1
    /\ heap[heap[OrigId].mNameTable["r"]].mValue = 0

====
